---- MODULE Spec2Model ----
(***************************************************************************)
(* Model of the idea platform's Express server (backend/backend-server.js) *)
(* over its PostgreSQL tables.  Every route handler is split at its awaits *)
(* (one step per database round trip); a handler whose steps cannot be     *)
(* observed apart is one step.  Tables are bags of rows, so that a         *)
(* duplicate row is representable and UNIQUE is something the insert has   *)
(* to enforce.                                                             *)
(***************************************************************************)
EXTENDS Integers, Sequences, FiniteSets, Bags, TLC

\* ------------------------------------------------------------------ bounds
MaxIdeas == 2          \* rows the ideas table may grow to
NumProcs == 2          \* requests in flight at the same time
MaxComments == 1       \* comment rows present when the server starts
MaxUsers == 3          \* rows the users table may grow to
MaxCalls == 3          \* likeIdea calls of the client that are followed

\* ------------------------------------------------------- program constants
PublicLimit == 20         \* LIMIT 20 of the public listing
MinPasswordLength == 6    \* password.length < 6
NullParam == 0            \* req.user?.id || null  (SERIAL ids start at 1)
FirstCreated == 1         \* id SERIAL PRIMARY KEY: the id of the first row
GeneralMax == 100         \* limiter: max: 100
AiMax == 10               \* aiLimiter: max: 10

VARIABLES
    users,           \* table users: sequence of rows, id = position (SERIAL)
    ideas,           \* table ideas: sequence of rows, id = position (SERIAL)
    likes,           \* table likes: bag of rows [idea_id, user_id]
    comments,        \* table comments: bag of rows [idea_id, user_id]
    collaborations,  \* table collaborations: bag of rows
    pc,              \* per request slot: the await the handler stands at
    req,             \* per request slot: the request being handled
    loc,             \* per request slot: the handler's local variables
    out,             \* the response sent last, by any handler
    serial,          \* TRUE: requests are served one after the other
    hits,            \* per limiter and client address: requests counted in
                     \* the current window (windowMs)
    client           \* the React client of one user: its ideas state and the
                     \* call it is waiting for

vars == <<users, ideas, likes, comments, collaborations,
          pc, req, loc, out, serial, hits, client>>

tables == <<users, ideas, likes, comments, collaborations>>

Procs == 1..NumProcs

\* ------------------------------------------------------------ value domains
Statuses == {"pending", "accepted", "rejected"}
Roles == {"employee", "mentor", "admin"}
Emails == {"ann@x", "bob@x"}
Secret == <<"s", "e", "c", "r", "e", "t">>
EmptyBody == [f \in {} |-> ""]

Ann == [name |-> "Ann", email |-> "ann@x", password_hash |-> <<"$2a$12$">> \o Secret,
        role |-> "employee"]
Bob == [name |-> "Bob", email |-> "bob@x", password_hash |-> <<"$2a$12$">> \o Secret,
        role |-> "employee"]

\* ai_analysis JSON column: NULL or an object
NoAnalysis == [kind |-> "null"]

FallbackAnalysis ==
    [similarSolutions |-> <<"Market research needed">>,
     marketOpportunity |-> [score |-> 5, explanation |-> "Analysis pending"],
     recommendations |-> <<"Conduct user research", "Validate assumptions", "Build MVP">>,
     risks |-> <<"Market competition", "Technical feasibility", "User adoption">>]

ServiceAnalysis ==
    [similarSolutions |-> <<"Kickstarter">>,
     marketOpportunity |-> [score |-> 8, explanation |-> "Growing market"],
     recommendations |-> <<"Interview users">>,
     risks |-> <<"Crowded field">>]

\* what the external analysis service can do with one request
AIOutcomes ==
    {[kind |-> "network_error"], [kind |-> "not_ok"],
     [kind |-> "bad_json"], [kind |-> "json", value |-> ServiceAnalysis]}

SeedIdea ==
    [title |-> "Solar kiosk", description |-> "Charge phones", author_id |-> 1,
     phase |-> "Idea Spark", phase_index |-> 0, tags |-> <<"energy">>,
     ai_analysis |-> FallbackAnalysis, is_public |-> TRUE]

\* the place of a users row that has been deleted (ids are not reused)
DeletedRow == [name |-> "", email |-> "", password_hash |-> <<>>, role |-> ""]

\* ------------------------------------------------------------- SQL helpers
Min(a, b) == IF a < b THEN a ELSE b

RECURSIVE Repeat(_, _)
Repeat(x, n) == IF n <= 0 THEN <<>> ELSE <<x>> \o Repeat(x, n - 1)

\* the given rows of a bag-table, as a bag
Rows(table, rows) == [r \in rows |-> table[r]]

CountRows(table) == BagCardinality(table)

\* SELECT * FROM users WHERE id = $1
SelectUser(id) ==
    IF id \in 1..Len(users) /\ users[id] # DeletedRow THEN <<users[id]>> ELSE <<>>

\* SELECT * FROM users WHERE email = $1  (number of rows)
SelectUserByEmail(email) ==
    Cardinality({i \in 1..Len(users) :
                    users[i] # DeletedRow /\ users[i].email = email})

\* a lookup that finds a row whatever the id
SelectIdea_Any(id) == <<ideas[1]>>

\* SELECT * FROM ideas WHERE id = $1
SelectIdea(id) == IF id \in 1..Len(ideas) THEN <<ideas[id]>> ELSE <<>>

\* SELECT * FROM likes WHERE idea_id = $1 AND user_id = $2
SelectLike(ideaId, userId) ==
    Rows(likes, {r \in DOMAIN likes : r.idea_id = ideaId /\ r.user_id = userId})

\* SELECT * FROM collaborations WHERE idea_id = $1 AND user_id = $2
SelectCollaboration(ideaId, userId) ==
    Rows(collaborations,
         {r \in DOMAIN collaborations : r.idea_id = ideaId /\ r.user_id = userId})

\* the likes table without its UNIQUE(idea_id, user_id) constraint
LikesUniqueViolation_Off(ideaId, userId) == FALSE

\* UNIQUE(idea_id, user_id) of likes: would the insert be refused?
LikesUniqueViolation(ideaId, userId) == CountRows(SelectLike(ideaId, userId)) > 0

\* the collaborations table without its UNIQUE(idea_id, user_id) constraint
CollaborationsUniqueViolation_Off(ideaId, userId) == FALSE

\* UNIQUE(idea_id, user_id) of collaborations
CollaborationsUniqueViolation(ideaId, userId) ==
    CountRows(SelectCollaboration(ideaId, userId)) > 0

\* the users table without the UNIQUE constraint on email
UsersUniqueViolation_Off(email) == FALSE

\* email VARCHAR(255) UNIQUE NOT NULL of users
UsersUniqueViolation(email) == SelectUserByEmail(email) > 0

\* ------------------------------------------------------------ feed queries
\* the like count joined without ON i.id = l.idea_id
LikeCount_AnyIdea(ideaId) == CountRows(likes)

\* the comment count joined without ON i.id = c.idea_id
CommentCount_AnyIdea(ideaId) == CountRows(comments)

\* COUNT(*) ... GROUP BY idea_id, LEFT JOINed and COALESCEd to 0
LikeCount(ideaId) ==
    CountRows(Rows(likes, {r \in DOMAIN likes : r.idea_id = ideaId}))

CommentCount(ideaId) ==
    CountRows(Rows(comments, {r \in DOMAIN comments : r.idea_id = ideaId}))

\* json_agg(u.name) over the accepted collaborations of the idea, JOIN users
RECURSIVE Collaborators(_, _)
Collaborators(ideaId, u) ==
    IF u > Len(users) THEN <<>>
    ELSE Repeat(users[u].name,
                CountRows(Rows(collaborations,
                    {r \in DOMAIN collaborations :
                        r.idea_id = ideaId /\ r.user_id = u
                        /\ r.status = "accepted"})))
         \o Collaborators(ideaId, u + 1)

\* LEFT JOIN likes ul ON i.id = ul.idea_id AND ul.user_id = $1
\* ($1 = NULL compares equal to nothing)
ViewerLikeRows(ideaId, viewer) ==
    IF viewer = NullParam THEN 0 ELSE CountRows(SelectLike(ideaId, viewer))

\* one idea row mapped to the response shape (result.rows.map)
IdeaView(id, isLiked) ==
    [id |-> id, title |-> ideas[id].title, description |-> ideas[id].description,
     author |-> users[ideas[id].author_id].name, authorId |-> ideas[id].author_id,
     phase |-> ideas[id].phase, phaseIndex |-> ideas[id].phase_index,
     tags |-> ideas[id].tags, aiAnalysis |-> ideas[id].ai_analysis,
     likes |-> LikeCount(id), comments |-> CommentCount(id),
     collaborators |-> Collaborators(id, 1), isLiked |-> isLiked]

\* the join of GET /api/ideas, ORDER BY created_at DESC: ideas k, k-1, .. 1;
\* the LEFT JOIN on ul yields one output row per matching like row
RECURSIVE IdeasQuery(_, _)
IdeasQuery(k, viewer) ==
    IF k = 0 THEN <<>>
    ELSE (IF ideas[k].author_id \in 1..Len(users)
          THEN Repeat(IdeaView(k, ViewerLikeRows(k, viewer) > 0),
                      IF ViewerLikeRows(k, viewer) > 1
                      THEN ViewerLikeRows(k, viewer) ELSE 1)
          ELSE <<>>)
         \o IdeasQuery(k - 1, viewer)

\* a public listing that marks an idea as liked when somebody likes it
RECURSIVE PublicQuery_Liked(_)
PublicQuery_Liked(k) ==
    IF k = 0 THEN <<>>
    ELSE (IF ideas[k].author_id \in 1..Len(users) /\ ideas[k].is_public
          THEN <<IdeaView(k, LikeCount(k) > 0)>> ELSE <<>>)
         \o PublicQuery_Liked(k - 1)

\* the join of GET /api/ideas/public: WHERE is_public, isLiked: false
RECURSIVE PublicQuery(_)
PublicQuery(k) ==
    IF k = 0 THEN <<>>
    ELSE (IF ideas[k].author_id \in 1..Len(users) /\ ideas[k].is_public
          THEN <<IdeaView(k, FALSE)>> ELSE <<>>)
         \o PublicQuery(k - 1)

\* LIMIT 20
Limit(rows, n) == SubSeq(rows, 1, Min(Len(rows), n))

\* -------------------------------------------------------------- middleware
NoToken == [kind |-> "none"]
BadToken == [kind |-> "bad"]
Jwt(userId) == [kind |-> "jwt", userId |-> userId]

\* jwt.sign({ userId, email, role }, JWT_SECRET)
jwtSign(userId, email, role) ==
    [kind |-> "jwt", userId |-> userId, email |-> email, role |-> role]

\* the tokens in circulation: none, one that does not verify, and what
\* register or login signed at some time for a user id
SignedTokens ==
    {NoToken, BadToken}
    \cup {jwtSign(u, e, r) : u \in 1..Len(users), e \in Emails, r \in Roles}

\* an authenticateToken that trusts the token without reading the row
authenticateToken_NoLookup(token) ==
    IF token.kind = "none"
    THEN [status |-> 401, user |-> NullParam, message |-> "Access token required"]
    ELSE IF token.kind = "bad"
    THEN [status |-> 403, user |-> NullParam, message |-> "Invalid or expired token"]
    ELSE [status |-> 0, user |-> token.userId, message |-> ""]

\* tokens a client can present: none, a forged or expired one, or one that
\* register/login issued for an existing user
Tokens == {NoToken, BadToken} \cup {Jwt(u) : u \in 1..Len(users)}

\* authenticateToken: status 0 stands for next()
authenticateToken(token) ==
    IF token.kind = "none"
    THEN [status |-> 401, user |-> NullParam, message |-> "Access token required"]
    ELSE IF token.kind = "bad"
    THEN [status |-> 403, user |-> NullParam, message |-> "Invalid or expired token"]
    ELSE IF Len(SelectUser(token.userId)) = 0
    THEN [status |-> 401, user |-> NullParam, message |-> "Invalid token"]
    ELSE [status |-> 0, user |-> token.userId, message |-> ""]

\* req.user on GET /api/ideas: the route runs no authenticateToken, so
\* req.user is undefined whatever Authorization header the request carries
IdeasRouteUser(token) == NullParam

\* ------------------------------------------------------------ rate limiting
\* the addresses requests come from (req.ip, the limiters' key): a client
\* that is logged in and one that is not
Member == "10.0.0.1"
Anonymous == "10.0.0.2"
Clients == {Member, Anonymous}

Tiers == {"general", "ai"}
NoHits == [t \in Tiers |-> [c \in Clients |-> 0]]

\* store.increment(key)
Hit(h, tier, c) == [h EXCEPT ![tier][c] = @ + 1]

\* a limiter that refuses the request that reaches max
OverLimit_Reaching(totalHits, max) == totalHits >= max

\* totalHits > max
OverLimit(totalHits, max) == totalHits > max

\* the counts of a window are followed up to the first refused request
MayCount(c) ==
    /\ hits["general"][c] <= GeneralMax
    /\ hits["ai"][c] <= AiMax

\* the Authorization header a client sends: the logged-in one a token it was
\* issued, the other one none or one that does not verify
ClientTokens(c) ==
    IF c = Member THEN Tokens \ {NoToken, BadToken} ELSE {NoToken, BadToken}

\* ------------------------------------------------------- request bookkeeping
\* the client before its first call: useState([])
NoClient == [at |-> "idle", id |-> NullParam, ideas |-> <<>>, calls |-> 0]

NoReq == [route |-> "none"]
NoLoc == [at |-> "none"]
NoResp == [route |-> "none"]

Quiet == \A q \in Procs : pc[q] = "idle"

\* a request may arrive at slot p: any free slot when requests overlap, the
\* first slot with nothing else in flight when they are served serially
MayArrive(p) ==
    /\ pc[p] = "idle"
    /\ serial => (Quiet /\ p = 1)

\* what the request finds at arrival: the like row of (idea, user) for a
\* toggle, the collaboration row of (idea, user) for a collaboration request
Pre(route, ideaId, userId) ==
    IF route = "like" THEN CountRows(SelectLike(ideaId, userId)) > 0
    ELSE IF route = "collaborate"
    THEN CountRows(SelectCollaboration(ideaId, userId)) > 0
    ELSE FALSE

Request(route, token, userId, ideaId, body) ==
    [route |-> route, token |-> token, user |-> userId, id |-> ideaId,
     body |-> body, pre |-> Pre(route, ideaId, userId)]

\* the names of the fields an update's body holds (const { title, .. } = req.body)
Patch(r) == IF r.route = "update" THEN DOMAIN r.body ELSE {}

Response(r, status, body) ==
    [route |-> r.route, token |-> r.token, user |-> r.user, id |-> r.id,
     pre |-> r.pre, patch |-> Patch(r), status |-> status, body |-> body]

\* a request arrives at slot p and its handler stops at its first await
Accept(p, r, at) ==
    /\ pc' = [pc EXCEPT ![p] = at]
    /\ req' = [req EXCEPT ![p] = r]
    /\ loc' = [loc EXCEPT ![p] = NoLoc]
    /\ out' = out

\* a request arrives at slot p and is answered without a further await
Answer(p, r, status, body) ==
    /\ pc' = [pc EXCEPT ![p] = "idle"]
    /\ req' = [req EXCEPT ![p] = NoReq]
    /\ loc' = [loc EXCEPT ![p] = NoLoc]
    /\ out' = Response(r, status, body)

\* the handler in slot p moves on to its next await
Goto(p, at, l) ==
    /\ pc' = [pc EXCEPT ![p] = at]
    /\ loc' = [loc EXCEPT ![p] = l]
    /\ UNCHANGED <<req, out>>

\* the handler in slot p sends its response (res.status(..).json(..))
Send(p, status, body) ==
    /\ pc' = [pc EXCEPT ![p] = "idle"]
    /\ req' = [req EXCEPT ![p] = NoReq]
    /\ loc' = [loc EXCEPT ![p] = NoLoc]
    /\ out' = Response(req[p], status, body)

Message(m) == [message |-> m]

\* authenticateToken answers by itself: the handler never runs
Refuse(p, route, token) ==
    Answer(p, Request(route, token, NullParam, NullParam, EmptyBody),
           authenticateToken(token).status,
           Message(authenticateToken(token).message))

\* the limiter answers by itself: 429 and the default message
TooMany(p, route, token, userId) ==
    Answer(p, Request(route, token, userId, NullParam, EmptyBody), 429,
           [text |-> "Too many requests, please try again later."])

\* -------------------------------------------- POST /api/ideas/:id/like
LikeRow(ideaId, userId) == [idea_id |-> ideaId, user_id |-> userId]

\* INSERT INTO likes (idea_id, user_id) VALUES ($1, $2)
InsertLike(ideaId, userId) == likes (+) SetToBag({LikeRow(ideaId, userId)})

\* an unlike that deletes nothing
DeleteLike_Keep(ideaId, userId) == likes

\* DELETE FROM likes WHERE idea_id = $1 AND user_id = $2
DeleteLike(ideaId, userId) ==
    Rows(likes, {r \in DOMAIN likes : ~(r.idea_id = ideaId /\ r.user_id = userId)})

\* the request passes authenticateToken
LikeArrival(p, token, id) ==
    /\ MayArrive(p)
    /\ LET a == authenticateToken(token)
           r == Request("like", token, a.user, id, EmptyBody)
       IN  IF a.status # 0
           THEN Refuse(p, "like", token)
           ELSE Accept(p, r, "like_idea")
    /\ UNCHANGED <<tables, serial, hits>>

\* sent with one of the given tokens for one of the given ids
LikeRequestOn(p, tokens, ids) ==
    \E token \in tokens, id \in ids :
        LikeArrival(p, token, id) /\ UNCHANGED client

LikeRequest(p) == LikeRequestOn(p, Tokens, 1..(Len(ideas) + 1))

\* Check if idea exists
LikeSelectIdea(p) ==
    /\ pc[p] = "like_idea"
    /\ IF Len(SelectIdea(req[p].id)) = 0
       THEN Send(p, 404, Message("Idea not found"))
       ELSE Goto(p, "like_select", NoLoc)
    /\ UNCHANGED <<tables, serial, hits, client>>

\* Check if user already liked this idea
LikeSelectLike(p) ==
    /\ pc[p] = "like_select"
    /\ Goto(p, "like_write",
            [likeResult |-> CountRows(SelectLike(req[p].id, req[p].user))])
    /\ UNCHANGED <<tables, serial, hits, client>>

\* Unlike / Like; an insert the UNIQUE constraint refuses throws into the
\* handler's catch, which answers 500
LikeWrite(p) ==
    /\ pc[p] = "like_write"
    /\ IF loc[p].likeResult > 0
       THEN /\ likes' = DeleteLike(req[p].id, req[p].user)
            /\ Send(p, 200, [message |-> "Idea unliked", liked |-> FALSE])
       ELSE IF LikesUniqueViolation(req[p].id, req[p].user)
       THEN /\ likes' = likes
            /\ Send(p, 500, Message("Internal server error"))
       ELSE /\ likes' = InsertLike(req[p].id, req[p].user)
            /\ Send(p, 200, [message |-> "Idea liked", liked |-> TRUE])
    /\ UNCHANGED <<users, ideas, comments, collaborations, serial, hits, client>>

\* ------------------------------------- POST /api/ideas/:id/collaborate
NullText == "NULL"
CollaborateBodies == {EmptyBody, [message |-> "Let me help"]}

\* a request that is stored as accepted
CollaborationRow_Accepted(ideaId, userId, body) ==
    [idea_id |-> ideaId, user_id |-> userId,
     message |-> IF "message" \in DOMAIN body THEN body.message ELSE NullText,
     status |-> "accepted"]

CollaborationRow(ideaId, userId, body) ==
    [idea_id |-> ideaId, user_id |-> userId,
     message |-> IF "message" \in DOMAIN body THEN body.message ELSE NullText,
     status |-> "pending"]

\* a collaboration request without the own-idea check
OwnIdea_Never(row, userId) == FALSE

\* idea.author_id === req.user.id
OwnIdea(row, userId) == row.author_id = userId

CollaborateRequestOn(p, tokens, ids, bodies) ==
    \E token \in tokens, id \in ids, body \in bodies :
        /\ MayArrive(p)
        /\ LET a == authenticateToken(token)
               r == Request("collaborate", token, a.user, id, body)
           IN  IF a.status # 0
               THEN Refuse(p, "collaborate", token)
               ELSE Accept(p, r, "collaborate_idea")
        /\ UNCHANGED <<tables, serial, hits, client>>

CollaborateRequest(p) ==
    CollaborateRequestOn(p, Tokens, 1..(Len(ideas) + 1), CollaborateBodies)

\* Check if idea exists, then if the user is trying to collaborate on their
\* own idea
CollaborateSelectIdea(p) ==
    /\ pc[p] = "collaborate_idea"
    /\ IF Len(SelectIdea(req[p].id)) = 0
       THEN Send(p, 404, Message("Idea not found"))
       ELSE IF OwnIdea(SelectIdea(req[p].id)[1], req[p].user)
       THEN Send(p, 400, Message("You cannot collaborate on your own idea"))
       ELSE Goto(p, "collaborate_select", NoLoc)
    /\ UNCHANGED <<tables, serial, hits, client>>

\* Check if collaboration request already exists
CollaborateSelectExisting(p) ==
    /\ pc[p] = "collaborate_select"
    /\ IF CountRows(SelectCollaboration(req[p].id, req[p].user)) > 0
       THEN Send(p, 409, Message("Collaboration request already exists"))
       ELSE Goto(p, "collaborate_insert", NoLoc)
    /\ UNCHANGED <<tables, serial, hits, client>>

\* Create collaboration request; a refused insert throws into the catch
CollaborateInsert(p) ==
    /\ pc[p] = "collaborate_insert"
    /\ IF CollaborationsUniqueViolation(req[p].id, req[p].user)
       THEN /\ collaborations' = collaborations
            /\ Send(p, 500, Message("Internal server error"))
       ELSE /\ collaborations' = collaborations (+)
                    SetToBag({CollaborationRow(req[p].id, req[p].user, req[p].body)})
            /\ Send(p, 201, Message("Collaboration request sent successfully"))
    /\ UNCHANGED <<users, ideas, likes, comments, serial, hits, client>>

\* ------------------------------------------- POST /api/auth/register
RegisterBodies ==
    {[name |-> "Bob", email |-> e, password |-> pw] : e \in Emails,
        pw \in {Secret, SubSeq(Secret, 1, 5)}}
    \cup {[name |-> "Bob", email |-> "bob@x", password |-> Secret, role |-> "admin"],
          [email |-> "bob@x", password |-> Secret]}

\* const { name, email, password, role = 'employee' } = req.body
Field(body, f, default) == IF f \in DOMAIN body THEN body[f] ELSE default

\* bcrypt.hash(password, 12)
Hash(password) == <<"$2a$12$">> \o password

\* Validation
RegisterRequest(p) ==
    \E body \in RegisterBodies :
        /\ MayArrive(p)
        /\ LET r == Request("register", NoToken, NullParam, NullParam, body)
           IN  IF ~({"name", "email", "password"} \subseteq DOMAIN body)
               THEN Answer(p, r, 400, Message("All fields are required"))
               ELSE IF Len(body.password) < MinPasswordLength
               THEN Answer(p, r, 400,
                           Message("Password must be at least 6 characters"))
               ELSE /\ Len(users) < MaxUsers
                    /\ Accept(p, r, "register_select")
        /\ UNCHANGED <<tables, serial, hits, client>>

\* Check if user exists
RegisterSelect(p) ==
    /\ pc[p] = "register_select"
    /\ IF SelectUserByEmail(req[p].body.email) > 0
       THEN Send(p, 409, Message("User already exists with this email"))
       ELSE Goto(p, "register_insert", NoLoc)
    /\ UNCHANGED <<tables, serial, hits, client>>

\* Hash password, create user, generate JWT
RegisterInsert(p) ==
    /\ pc[p] = "register_insert"
    /\ IF UsersUniqueViolation(req[p].body.email)
       THEN /\ users' = users
            /\ Send(p, 500, Message("Internal server error"))
       ELSE /\ users' = Append(users,
                    [name |-> req[p].body.name, email |-> req[p].body.email,
                     password_hash |-> Hash(req[p].body.password),
                     role |-> Field(req[p].body, "role", "employee")])
            /\ Send(p, 201,
                    [message |-> "User created successfully",
                     token |-> jwtSign(Len(users) + 1, req[p].body.email,
                                      Field(req[p].body, "role", "employee")),
                     user |-> [id |-> Len(users) + 1, name |-> req[p].body.name,
                               email |-> req[p].body.email,
                               role |-> Field(req[p].body, "role", "employee")]])
    /\ UNCHANGED <<ideas, likes, comments, collaborations, serial, hits, client>>

\* ---------------------------------------------- POST /api/auth/login
LoginBodies ==
    {[email |-> e, password |-> pw] : e \in Emails,
        pw \in {Secret, SubSeq(Secret, 1, 5)}}
    \cup {[email |-> "ann@x"]}

\* result.rows[0] of SELECT * FROM users WHERE email = $1: the id of the row
UserIdByEmail(email) ==
    CHOOSE i \in 1..Len(users) : users[i] # DeletedRow /\ users[i].email = email

\* bcrypt.compare(password, user.password_hash)
Compare(password, hash) == Hash(password) = hash

\* the user object of the auth responses
UserView(id) ==
    [id |-> id, name |-> users[id].name, email |-> users[id].email,
     role |-> users[id].role]

\* the whole handler: validation, find user, verify password, sign
Login(p) ==
    \E body \in LoginBodies :
        /\ MayArrive(p)
        /\ LET r == Request("login", NoToken, NullParam, NullParam, EmptyBody)
           IN  IF ~({"email", "password"} \subseteq DOMAIN body)
               THEN Answer(p, r, 400, Message("Email and password are required"))
               ELSE IF SelectUserByEmail(body.email) = 0
               THEN Answer(p, r, 401, Message("Invalid email or password"))
               ELSE IF ~Compare(body.password,
                                users[UserIdByEmail(body.email)].password_hash)
               THEN Answer(p, r, 401, Message("Invalid email or password"))
               ELSE LET id == UserIdByEmail(body.email)
                    IN  Answer(p, r, 200,
                               [message |-> "Login successful",
                                token |-> jwtSign(id, users[id].email, users[id].role),
                                user |-> UserView(id)])
        /\ UNCHANGED <<tables, serial, hits, client>>

\* --------------------------------------------- POST /api/auth/verify
\* authenticateToken, then the row it read
Verify(p) ==
    \E token \in SignedTokens :
        /\ MayArrive(p)
        /\ LET a == authenticateToken(token)
           IN  IF a.status # 0
               THEN Refuse(p, "verify", token)
               ELSE Answer(p, Request("verify", token, a.user, NullParam, EmptyBody),
                           200, [user |-> UserView(a.user)])
        /\ UNCHANGED <<tables, serial, hits, client>>

\* ------------------------------------------ GET /api/admin/analytics
\* an admin gate that reads the role the token was signed with
requireAdmin_FromToken(user, token) == token.role = "admin"

\* requireAdmin: req.user.role !== 'admin'
requireAdmin(user, token) == user.role = "admin"

\* SELECT COUNT(*) as count, role FROM users GROUP BY role
UsersByRole ==
    {[role |-> r,
      count |-> Cardinality({i \in 1..Len(users) :
                                users[i] # DeletedRow /\ users[i].role = r})] :
        r \in {users[i].role : i \in {j \in 1..Len(users) : users[j] # DeletedRow}}}

\* SELECT COUNT(*) as count, phase FROM ideas GROUP BY phase
IdeasByPhase ==
    {[phase |-> ph,
      count |-> Cardinality({i \in 1..Len(ideas) : ideas[i].phase = ph})] :
        ph \in {ideas[i].phase : i \in 1..Len(ideas)}}

\* the four queries of Promise.all and the response built from them
Analytics ==
    [users |-> UsersByRole, ideas |-> IdeasByPhase,
     collaborations |->
         CountRows(Rows(collaborations,
                        {r \in DOMAIN collaborations : r.status = "accepted"})),
     totalLikes |-> CountRows(likes)]

\* authenticateToken, requireAdmin, then the handler
GetAnalytics(p) ==
    \E token \in SignedTokens :
        /\ MayArrive(p)
        /\ LET a == authenticateToken(token)
               r == Request("analytics", token, a.user, NullParam, EmptyBody)
           IN  IF a.status # 0
               THEN Refuse(p, "analytics", token)
               ELSE IF ~requireAdmin(users[a.user], token)
               THEN Answer(p, r, 403, Message("Admin access required"))
               ELSE Answer(p, r, 200, Analytics)
        /\ UNCHANGED <<tables, serial, hits, client>>

\* ------------------------------------- the database, changed from outside
\* UPDATE users SET role = .. by an administrator of the database
SetRole(u, role) ==
    /\ Quiet
    /\ Len(SelectUser(u)) > 0 /\ users[u].role # role
    /\ users' = [users EXCEPT ![u].role = role]
    /\ UNCHANGED <<ideas, likes, comments, collaborations,
                   pc, req, loc, out, serial, hits, client>>

\* DELETE FROM users WHERE id = ..; the likes, comments and collaboration
\* requests of the user go with the row (ON DELETE CASCADE).  Followed for
\* users who have no idea: ideas keep their ids as positions
DeleteUser(u) ==
    /\ Quiet
    /\ Len(SelectUser(u)) > 0
    /\ \A i \in 1..Len(ideas) : ideas[i].author_id # u
    /\ users' = [users EXCEPT ![u] = DeletedRow]
    /\ likes' = Rows(likes, {r \in DOMAIN likes : r.user_id # u})
    /\ comments' = Rows(comments, {r \in DOMAIN comments : r.user_id # u})
    /\ collaborations' =
           Rows(collaborations, {r \in DOMAIN collaborations : r.user_id # u})
    /\ UNCHANGED <<ideas, pc, req, loc, out, serial, hits, client>>

\* ----------------------------------------------------- GET /api/ideas
GetIdeasWith(p, token) ==
    /\ MayArrive(p)
    /\ Answer(p, Request("ideas", token, IdeasRouteUser(token), NullParam, EmptyBody),
              200, [ideas |-> IdeasQuery(Len(ideas), IdeasRouteUser(token))])
    /\ UNCHANGED <<tables, serial, hits>>

GetIdeas(p) == \E token \in Tokens : GetIdeasWith(p, token) /\ UNCHANGED client

\* ---------------------------------------------- GET /api/ideas/public
GetPublicIdeas(p) ==
    /\ MayArrive(p)
    /\ Answer(p, Request("public", NoToken, NullParam, NullParam, EmptyBody),
              200, [ideas |-> Limit(PublicQuery(Len(ideas)), PublicLimit)])
    /\ UNCHANGED <<tables, serial, hits, client>>

\* ---------------------------------------------------- POST /api/ideas
CreateBodies ==
    {[title |-> "X", description |-> "Share rides", tags |-> <<"ai", "tools">>],
     [title |-> "", description |-> "Share rides"],
     [title |-> "X"]}

\* !title || !description
Falsy(body, f) == f \notin DOMAIN body \/ body[f] = ""

\* a getAIAnalysis whose catch returns nothing
getAIAnalysis_NoFallback(outcome) ==
    IF outcome.kind = "json" THEN outcome.value ELSE NoAnalysis

\* getAIAnalysis: the service's answer parsed, or the fallback from the catch
getAIAnalysis(outcome) ==
    IF outcome.kind = "json" THEN outcome.value ELSE FallbackAnalysis

\* an INSERT that stores the fallback analysis with the new row
NewIdeaRow_Analysed(body, userId) ==
    [title |-> body.title, description |-> body.description, author_id |-> userId,
     phase |-> Field(body, "phase", "Idea Spark"),
     phase_index |-> Field(body, "phaseIndex", 0),
     tags |-> Field(body, "tags", <<>>),
     ai_analysis |-> FallbackAnalysis, is_public |-> TRUE]

\* INSERT INTO ideas (...) VALUES ($1, $2, $3, $4, $5, $6, true) RETURNING *
NewIdeaRow(body, userId) ==
    [title |-> body.title, description |-> body.description, author_id |-> userId,
     phase |-> Field(body, "phase", "Idea Spark"),
     phase_index |-> Field(body, "phaseIndex", 0),
     tags |-> Field(body, "tags", <<>>),
     ai_analysis |-> NoAnalysis, is_public |-> TRUE]

\* responseIdea
CreatedView(id, row, userId) ==
    [id |-> id, title |-> row.title, description |-> row.description,
     author |-> users[userId].name, authorId |-> userId,
     phase |-> row.phase, phaseIndex |-> row.phase_index, tags |-> row.tags,
     aiAnalysis |-> row.ai_analysis,
     likes |-> 0, comments |-> 0, collaborators |-> <<>>, isLiked |-> FALSE]

\* the whole handler: validation, insert, analysis, update, response
CreateHandle(p, token, body, outcome) ==
    LET a == authenticateToken(token)
        r == Request("create", token, a.user, NullParam, body)
        row == [NewIdeaRow(body, a.user) EXCEPT
                    !.ai_analysis = getAIAnalysis(outcome)]
    IN  IF a.status # 0
        THEN /\ Refuse(p, "create", token)
             /\ ideas' = ideas
        ELSE IF Falsy(body, "title") \/ Falsy(body, "description")
        THEN /\ Answer(p, r, 400, Message("Title and description are required"))
             /\ ideas' = ideas
        ELSE /\ Len(ideas) < MaxIdeas
             /\ ideas' = Append(ideas, row)
             /\ Answer(p, r, 201,
                       [message |-> "Idea created successfully",
                        idea |-> CreatedView(Len(ideas) + 1, row, a.user)])

\* a create in a window in which the budgets are not reached
CreateIdeaOn(p, tokens, bodies, outcomes) ==
    \E token \in tokens, body \in bodies, outcome \in outcomes :
        /\ MayArrive(p)
        /\ CreateHandle(p, token, body, outcome)
        /\ UNCHANGED <<users, likes, comments, collaborations, serial, hits, client>>

CreateIdea(p) == CreateIdeaOn(p, Tokens, CreateBodies, AIOutcomes)

\* ---------------------------------------------------- POST /api/ai/ask
AskBodies ==
    {[question |-> "How do I start?",
      ideaContext |-> [title |-> "X", description |-> "Share rides",
                       phase |-> "Idea Spark"]],
     [question |-> "How do I start?"]}

\* what the external service can do with one question
AssistantOutcomes ==
    {[kind |-> "network_error"], [kind |-> "not_ok"],
     [kind |-> "text", text |-> "Talk to ten customers first."]}

\* an askAIAssistant that hands on the message of the error it caught
askAIAssistant_Error(outcome) ==
    IF outcome.kind = "text" THEN outcome.text ELSE "AI assistant failed"

\* askAIAssistant: the service's text, or the apology from the catch
askAIAssistant(outcome) ==
    IF outcome.kind = "text" THEN outcome.text
    ELSE "I'm having trouble processing your question right now. Please try again later."

\* authenticateToken and the handler: validation, the call, the response
AskHandle(p, token, body, outcome) ==
    LET a == authenticateToken(token)
        r == Request("ask", token, a.user, NullParam, EmptyBody)
    IN  IF a.status # 0
        THEN Refuse(p, "ask", token)
        ELSE IF Falsy(body, "question") \/ "ideaContext" \notin DOMAIN body
        THEN Answer(p, r, 400, Message("Question and idea context are required"))
        ELSE Answer(p, r, 200, [response |-> askAIAssistant(outcome)])

\* ------------------------------- POST /api/ai/ask, one step per await
\* everything the service can do with one question: the outcomes above, a
\* body that is no JSON of the expected shape, or an answer never completed
ReplyOutcomes ==
    AssistantOutcomes \cup {[kind |-> "bad_json"], [kind |-> "no_answer"]}

\* authenticateToken, then the validation of question and ideaContext
AskRequest(p) ==
    \E token \in Tokens, body \in AskBodies :
        /\ MayArrive(p)
        /\ LET a == authenticateToken(token)
               r == Request("ask", token, a.user, NullParam, EmptyBody)
           IN  IF a.status # 0
               THEN Refuse(p, "ask", token)
               ELSE IF Falsy(body, "question") \/ "ideaContext" \notin DOMAIN body
               THEN Answer(p, r, 400,
                           Message("Question and idea context are required"))
               ELSE Accept(p, r, "ask_fetch")
        /\ UNCHANGED <<tables, serial, hits, client>>

\* await askAIAssistant(question, ideaContext): resolves when the service has
\* completed its answer or the call has failed
AskFetch(p) ==
    /\ pc[p] = "ask_fetch"
    /\ \E outcome \in ReplyOutcomes :
           IF outcome.kind = "no_answer"
           THEN Goto(p, "ask_waiting", NoLoc)
           ELSE Goto(p, "ask_respond",
                     [outcome |-> outcome.kind, response |-> askAIAssistant(outcome)])
    /\ UNCHANGED <<tables, serial, hits, client>>

\* res.json({ response })
AskRespond(p) ==
    /\ pc[p] = "ask_respond"
    /\ Send(p, 200, [response |-> loc[p].response])
    /\ UNCHANGED <<tables, serial, hits, client>>

\* ------------------------------ the routes behind limiter and aiLimiter
\* app.use('/api/', limiter), then authenticateToken, then aiLimiter, then
\* the handler; a request the general limiter refuses is not seen by the
\* other two, one authenticateToken refuses is not counted by aiLimiter
LimitedAsk(p) ==
    \E c \in Clients, body \in AskBodies, outcome \in AssistantOutcomes :
      \E token \in ClientTokens(c) :
        /\ MayArrive(p)
        /\ MayCount(c)
        /\ IF OverLimit(hits["general"][c] + 1, GeneralMax)
           THEN /\ TooMany(p, "ask", token, NullParam)
                /\ hits' = Hit(hits, "general", c)
           ELSE IF authenticateToken(token).status # 0
           THEN /\ Refuse(p, "ask", token)
                /\ hits' = Hit(hits, "general", c)
           ELSE IF OverLimit(hits["ai"][c] + 1, AiMax)
           THEN /\ TooMany(p, "ask", token, authenticateToken(token).user)
                /\ hits' = Hit(Hit(hits, "general", c), "ai", c)
           ELSE /\ AskHandle(p, token, body, outcome)
                /\ hits' = Hit(Hit(hits, "general", c), "ai", c)
        /\ UNCHANGED <<tables, serial, client>>

LimitedCreate(p) ==
    \E c \in Clients, body \in CreateBodies, outcome \in AIOutcomes :
      \E token \in ClientTokens(c) :
        /\ MayArrive(p)
        /\ MayCount(c)
        /\ IF OverLimit(hits["general"][c] + 1, GeneralMax)
           THEN /\ TooMany(p, "create", token, NullParam)
                /\ hits' = Hit(hits, "general", c)
                /\ ideas' = ideas
           ELSE IF authenticateToken(token).status # 0
           THEN /\ Refuse(p, "create", token)
                /\ hits' = Hit(hits, "general", c)
                /\ ideas' = ideas
           ELSE IF OverLimit(hits["ai"][c] + 1, AiMax)
           THEN /\ TooMany(p, "create", token, authenticateToken(token).user)
                /\ hits' = Hit(Hit(hits, "general", c), "ai", c)
                /\ ideas' = ideas
           ELSE /\ CreateHandle(p, token, body, outcome)
                /\ hits' = Hit(Hit(hits, "general", c), "ai", c)
        /\ UNCHANGED <<users, likes, comments, collaborations, serial, client>>

\* ------------------------------- POST /api/ideas, one step per await
\* an answer of the service that parses but holds one of the four parts only
PartialAnalysis == [similarSolutions |-> <<"Kickstarter">>]

\* everything the service can do with one request: the outcomes above, JSON
\* of another shape, or an answer that is never completed
EnrichmentOutcomes ==
    AIOutcomes
    \cup {[kind |-> "json", value |-> PartialAnalysis], [kind |-> "no_answer"]}

\* bodies with and without tags
EnrichmentBodies ==
    CreateBodies \cup {[title |-> "Y", description |-> "Lend tools"]}

\* creates that have passed validation and not inserted yet
Inserting == {q \in Procs : pc[q] = "create_insert"}

\* authenticateToken, then the validation of title and description
CreateRequestOn(p, tokens, bodies) ==
    \E token \in tokens, body \in bodies :
        /\ MayArrive(p)
        /\ LET a == authenticateToken(token)
               r == Request("create", token, a.user, NullParam, body)
           IN  IF a.status # 0
               THEN Refuse(p, "create", token)
               ELSE IF Falsy(body, "title") \/ Falsy(body, "description")
               THEN Answer(p, r, 400, Message("Title and description are required"))
               ELSE /\ Len(ideas) + Cardinality(Inserting) < MaxIdeas
                    /\ Accept(p, r, "create_insert")
        /\ UNCHANGED <<tables, serial, hits, client>>

CreateRequest(p) == CreateRequestOn(p, Tokens, EnrichmentBodies)

\* Create idea in database; idea = result.rows[0]
CreateInsert(p) ==
    /\ pc[p] = "create_insert"
    /\ ideas' = Append(ideas, NewIdeaRow(req[p].body, req[p].user))
    /\ Goto(p, "create_fetch",
            [id |-> Len(ideas) + 1, idea |-> NewIdeaRow(req[p].body, req[p].user)])
    /\ UNCHANGED <<users, likes, comments, collaborations, serial, hits, client>>

\* await getAIAnalysis(..): the fetch and the read of its body carry no
\* timeout or abort signal of the handler, so the await resolves only when
\* the service has completed its answer; a service that never completes it
\* (no_answer) leaves the handler at the await
CreateFetch(p) ==
    /\ pc[p] = "create_fetch"
    /\ \E outcome \in EnrichmentOutcomes :
           IF outcome.kind = "no_answer"
           THEN Goto(p, "create_waiting", loc[p])
           ELSE Goto(p, "create_update",
                     [id |-> loc[p].id, idea |-> loc[p].idea,
                      outcome |-> outcome.kind,
                      aiAnalysis |-> getAIAnalysis(outcome)])
    /\ UNCHANGED <<tables, serial, hits, client>>

\* Update idea with AI analysis: the UPDATE runs or throws, and on success
\* idea.ai_analysis = aiAnalysis
CreateUpdate(p) ==
    /\ pc[p] = "create_update"
    /\ \E stored \in BOOLEAN :
           /\ ideas' = IF stored
                       THEN [ideas EXCEPT ![loc[p].id].ai_analysis = loc[p].aiAnalysis]
                       ELSE ideas
           /\ Goto(p, "create_respond",
                   [id |-> loc[p].id,
                    idea |-> IF stored
                             THEN [loc[p].idea EXCEPT !.ai_analysis = loc[p].aiAnalysis]
                             ELSE loc[p].idea,
                    outcome |-> loc[p].outcome, aiAnalysis |-> loc[p].aiAnalysis,
                    stored |-> stored])
    /\ UNCHANGED <<users, likes, comments, collaborations, serial, hits, client>>

\* a handler whose inner try is missing: the error reaches the outer catch
AfterEnrichment_Outer(l, userId) ==
    IF l.stored
    THEN [status |-> 201,
          body |-> [message |-> "Idea created successfully",
                    idea |-> CreatedView(l.id, l.idea, userId)]]
    ELSE [status |-> 500, body |-> Message("Internal server error")]

\* catch (aiError): Continue without AI analysis; then the response
AfterEnrichment(l, userId) ==
    [status |-> 201,
     body |-> [message |-> "Idea created successfully",
               idea |-> CreatedView(l.id, l.idea, userId)]]

CreateRespond(p) ==
    /\ pc[p] = "create_respond"
    /\ Send(p, AfterEnrichment(loc[p], req[p].user).status,
            AfterEnrichment(loc[p], req[p].user).body)
    /\ UNCHANGED <<tables, serial, hits, client>>

\* ------------------------------------------------- PUT /api/ideas/:id
UpdateBodies ==
    {EmptyBody, [title |-> "Solar hub"],
     [description |-> "Charge anything", tags |-> <<"ai">>,
      phase |-> "Build & Test", phaseIndex |-> 3]}

\* bodies of any client: an empty title, a phase without its index, a phase
\* that is no stage
PatchBodies ==
    UpdateBodies
    \cup {[title |-> ""], [phase |-> "Launch Ready"],
          [description |-> "", phase |-> "Done", phaseIndex |-> 9]}

\* an UPDATE that writes every column from the body, NULL or empty when the
\* body does not hold it
UpdatedRow_Replace(row, body) ==
    [row EXCEPT !.title = Field(body, "title", ""),
                !.description = Field(body, "description", ""),
                !.tags = Field(body, "tags", <<>>),
                !.phase = Field(body, "phase", "Idea Spark"),
                !.phase_index = Field(body, "phaseIndex", 0)]

\* UPDATE ideas SET title = COALESCE($1, title), ... WHERE id = $6
UpdatedRow(row, body) ==
    [row EXCEPT !.title = Field(body, "title", row.title),
                !.description = Field(body, "description", row.description),
                !.tags = Field(body, "tags", row.tags),
                !.phase = Field(body, "phase", row.phase),
                !.phase_index = Field(body, "phaseIndex", row.phase_index)]

\* an update without the ownership check
Owns_Anyone(row, userId) == TRUE

\* Check if user owns the idea
Owns(row, userId) == row.author_id = userId

\* the whole handler: existence, ownership, update, response
UpdateIdeaOn(p, tokens, ids, bodies) ==
    \E token \in tokens, id \in ids, body \in bodies :
        /\ MayArrive(p)
        /\ LET a == authenticateToken(token)
               r == Request("update", token, a.user, id, body)
           IN  IF a.status # 0
               THEN /\ Refuse(p, "update", token)
                    /\ ideas' = ideas
               ELSE IF Len(SelectIdea(id)) = 0
               THEN /\ Answer(p, r, 404, Message("Idea not found"))
                    /\ ideas' = ideas
               ELSE IF ~Owns(SelectIdea(id)[1], a.user)
               THEN /\ Answer(p, r, 403, Message("You can only update your own ideas"))
                    /\ ideas' = ideas
               ELSE /\ ideas' = [ideas EXCEPT ![id] = UpdatedRow(ideas[id], body)]
                    /\ Answer(p, r, 200,
                              [message |-> "Idea updated successfully",
                               idea |-> UpdatedRow(ideas[id], body)])
        /\ UNCHANGED <<users, likes, comments, collaborations, serial, hits, client>>

UpdateIdeaWith(p, bodies) ==
    UpdateIdeaOn(p, Tokens, 1..(Len(ideas) + 1), bodies)

UpdateIdea(p) == UpdateIdeaWith(p, UpdateBodies)

\* the same handler, sent bodies of any client
PatchIdea(p) == UpdateIdeaWith(p, PatchBodies)

\* ------------------------------------------------ the client (App component)
\* localStorage.getItem('auth_token'): the client's user is logged in as Ann
ClientToken == Jwt(1)

\* what the ideas state holds of each entry, as far as likeIdea goes
ClientView(entries) ==
    [k \in 1..Len(entries) |->
        [id |-> entries[k].id, likes |-> entries[k].likes,
         isLiked |-> entries[k].isLiked]]

\* loadIdeas: apiCall('/ideas'), then setIdeas(response.ideas)
ClientLoadIdeas(p) ==
    /\ client.at = "idle"
    /\ GetIdeasWith(p, ClientToken)
    /\ client' = [client EXCEPT !.ideas = ClientView(out'.body.ideas)]

\* likeIdea(ideaId), up to its await: the like button of an entry shown
ClientLikeIdea(p) ==
    /\ client.at = "idle"
    /\ client.calls < MaxCalls
    /\ \E k \in 1..Len(client.ideas) :
           /\ LikeArrival(p, ClientToken, client.ideas[k].id)
           /\ client' = [client EXCEPT !.at = "like", !.id = client.ideas[k].id,
                                       !.calls = @ + 1]

\* response.ok of apiCall
Ok(status) == status \in 200..299

\* setIdeas(prev => prev.map(..)) of likeIdea
Bumped(shown, ideaId) ==
    [k \in 1..Len(shown) |->
        IF shown[k].id = ideaId
        THEN [shown[k] EXCEPT !.likes = @ + 1, !.isLiked = TRUE]
        ELSE shown[k]]

\* likeIdea after its await: the state update when the call succeeded, the
\* catch when apiCall threw
ClientLikeResolved ==
    /\ client.at = "like"
    /\ Quiet
    /\ client' = [client EXCEPT
                     !.at = "idle",
                     !.ideas = IF Ok(out.status)
                               THEN Bumped(client.ideas, client.id)
                               ELSE client.ideas]
    /\ UNCHANGED <<tables, pc, req, loc, out, serial, hits>>

\* ------------------------------------------------------- specifications
\* initDatabase creates the tables only if they do not exist: the server
\* starts on whatever rows the database already holds
SeedComment == [idea_id |-> 1, user_id |-> 1]
SeedCollaboration(status) ==
    [idea_id |-> 1, user_id |-> 2, message |-> "Count me in", status |-> status]

Copies(row, n) == IF n = 0 THEN EmptyBag ELSE [r \in {row} |-> n]

BobsIdea ==
    [title |-> "Bike pool", description |-> "Share rides", author_id |-> 2,
     phase |-> "Research & Validate", phase_index |-> 1, tags |-> <<>>,
     ai_analysis |-> NoAnalysis, is_public |-> TRUE]

\* a database in use: two users, Ann's idea with its comments and Bob's
\* accepted collaboration request on it
InitTables ==
    /\ users = <<Ann, Bob>>
    /\ ideas = <<SeedIdea>>
    /\ likes = EmptyBag
    /\ comments = Copies(SeedComment, MaxComments)
    /\ collaborations = SetToBag({SeedCollaboration("accepted")})

InitSlots ==
    /\ pc = [p \in Procs |-> "idle"]
    /\ req = [p \in Procs |-> NoReq]
    /\ loc = [p \in Procs |-> NoLoc]
    /\ out = NoResp
    /\ hits = NoHits
    /\ client = NoClient

\* the feed and what feeds it, requests served one after the other
Init == InitTables /\ InitSlots /\ serial = TRUE

Next ==
    \E p \in Procs :
        \/ GetIdeas(p) \/ GetPublicIdeas(p) \/ CreateIdea(p)
        \/ LikeRequest(p) \/ LikeSelectIdea(p) \/ LikeSelectLike(p) \/ LikeWrite(p)

Spec == Init /\ [][Next]_vars

\* ownership: updates and collaboration requests on two ideas of two authors,
\* requests served one after the other
InitOwner ==
    /\ users = <<Ann, Bob>>
    /\ ideas = <<SeedIdea, BobsIdea>>
    /\ likes = EmptyBag
    /\ comments = EmptyBag
    /\ collaborations \in
           {EmptyBag} \cup {SetToBag({SeedCollaboration(s)}) : s \in Statuses}
    /\ InitSlots
    /\ serial = TRUE

NextOwner ==
    \E p \in Procs :
        \/ UpdateIdea(p)
        \/ CollaborateRequest(p) \/ CollaborateSelectIdea(p)
        \/ CollaborateSelectExisting(p) \/ CollaborateInsert(p)

SpecOwner == InitOwner /\ [][NextOwner]_vars

\* like toggles overlapping: the handlers interleave at their awaits
InitConc == InitTables /\ InitSlots /\ serial = FALSE

NextConc ==
    \E p \in Procs :
        \/ LikeRequest(p) \/ LikeSelectIdea(p) \/ LikeSelectLike(p) \/ LikeWrite(p)

SpecConc == InitConc /\ [][NextConc]_vars

\* collaboration requests overlapping, on a database that may already hold
\* Bob's request on Ann's idea in any status
InitCollab ==
    /\ users = <<Ann, Bob>>
    /\ ideas = <<SeedIdea>>
    /\ likes = EmptyBag
    /\ comments = EmptyBag
    /\ collaborations \in
           {EmptyBag} \cup {SetToBag({SeedCollaboration(s)}) : s \in Statuses}
    /\ InitSlots
    /\ serial = FALSE

NextCollab ==
    \E p \in Procs :
        \/ CollaborateRequest(p) \/ CollaborateSelectIdea(p)
        \/ CollaborateSelectExisting(p) \/ CollaborateInsert(p)

SpecCollab == InitCollab /\ [][NextCollab]_vars

\* registrations and collaboration requests overlapping; Bob has still to
\* register
InitDup ==
    /\ users = <<Ann>>
    /\ ideas = <<SeedIdea>>
    /\ likes = EmptyBag
    /\ comments = EmptyBag
    /\ collaborations = EmptyBag
    /\ InitSlots
    /\ serial = FALSE

NextDup ==
    \E p \in Procs :
        \/ RegisterRequest(p) \/ RegisterSelect(p) \/ RegisterInsert(p)
        \/ CollaborateRequest(p) \/ CollaborateSelectIdea(p)
        \/ CollaborateSelectExisting(p) \/ CollaborateInsert(p)

SpecDup == InitDup /\ [][NextDup]_vars

\* updates with bodies of any client on two ideas of two authors, requests
\* served one after the other
InitEdit ==
    /\ users = <<Ann, Bob>>
    /\ ideas = <<SeedIdea, BobsIdea>>
    /\ likes = EmptyBag
    /\ comments = EmptyBag
    /\ collaborations = EmptyBag
    /\ InitSlots
    /\ serial = TRUE

NextEdit == \E p \in Procs : PatchIdea(p)

SpecEdit == InitEdit /\ [][NextEdit]_vars

\* creates served one after the other, against a service and a database that
\* may fail
InitCreate == InitTables /\ InitSlots /\ serial = TRUE

NextCreate ==
    \E p \in Procs :
        \/ CreateRequest(p) \/ CreateInsert(p) \/ CreateFetch(p)
        \/ CreateUpdate(p) \/ CreateRespond(p)

SpecCreate == InitCreate /\ [][NextCreate]_vars

\* creates overlapping, where every handler that can take its next step takes
\* it in the end: Node runs the continuation of every await that resolves
InitCreateFair == InitTables /\ InitSlots /\ serial = FALSE

Continue(p) ==
    CreateInsert(p) \/ CreateFetch(p) \/ CreateUpdate(p) \/ CreateRespond(p)

SpecCreateFair ==
    /\ InitCreateFair
    /\ [][NextCreate]_vars
    /\ \A p \in Procs : WF_vars(Continue(p))

\* the AI-backed routes behind both limiters within one window of each,
\* requests served one after the other
InitLimit ==
    /\ users = <<Ann>>
    /\ ideas = <<SeedIdea>>
    /\ likes = EmptyBag
    /\ comments = EmptyBag
    /\ collaborations = EmptyBag
    /\ InitSlots
    /\ serial = TRUE

NextLimit == \E p \in Procs : LimitedAsk(p) \/ LimitedCreate(p)

SpecLimit == InitLimit /\ [][NextLimit]_vars

\* identities: register, login, verify and the admin gate, on a database
\* whose users an administrator may change or delete; requests served one
\* after the other
InitAuth == InitTables /\ InitSlots /\ serial = TRUE

NextAuth ==
    \/ \E p \in Procs :
           \/ RegisterRequest(p) \/ RegisterSelect(p) \/ RegisterInsert(p)
           \/ Login(p) \/ Verify(p) \/ GetAnalytics(p)
    \/ \E u \in 1..Len(users) : DeleteUser(u)
    \/ \E u \in 1..Len(users), role \in Roles : SetRole(u, role)

SpecAuth == InitAuth /\ [][NextAuth]_vars

\* likes and collaboration requests served one after the other, on a
\* database that may already hold Bob's request on Ann's idea in any status
InitSocial ==
    /\ users = <<Ann, Bob>>
    /\ ideas = <<SeedIdea>>
    /\ likes = EmptyBag
    /\ comments = EmptyBag
    /\ collaborations \in
           {EmptyBag} \cup {SetToBag({SeedCollaboration(s)}) : s \in Statuses}
    /\ InitSlots
    /\ serial = TRUE

NextSocial ==
    \E p \in Procs :
        \/ LikeRequest(p) \/ LikeSelectIdea(p) \/ LikeSelectLike(p) \/ LikeWrite(p)
        \/ CollaborateRequest(p) \/ CollaborateSelectIdea(p)
        \/ CollaborateSelectExisting(p) \/ CollaborateInsert(p)

SpecSocial == InitSocial /\ [][NextSocial]_vars

\* questions to the assistant overlapping, against a service that may fail
InitAsk == InitTables /\ InitSlots /\ serial = FALSE

NextAsk == \E p \in Procs : AskRequest(p) \/ AskFetch(p) \/ AskRespond(p)

SpecAsk == InitAsk /\ [][NextAsk]_vars

\* creates next to everything else that is done to an idea, on a database
\* without ideas; requests served one after the other.  Ann creates, Bob
\* likes and asks to collaborate, both try to update; likes, collaboration
\* requests and updates go to the idea the first create makes
InitEnrich ==
    /\ users = <<Ann, Bob>>
    /\ ideas = <<>>
    /\ likes = EmptyBag
    /\ comments = EmptyBag
    /\ collaborations = EmptyBag
    /\ InitSlots
    /\ serial = TRUE


NextEnrich ==
    \E p \in Procs :
        \/ CreateRequestOn(p, {Jwt(1)}, {CHOOSE b \in CreateBodies : "tags" \in DOMAIN b})
        \/ CreateInsert(p) \/ CreateFetch(p) \/ CreateUpdate(p) \/ CreateRespond(p)
        \/ UpdateIdeaOn(p, {Jwt(1), Jwt(2)}, {FirstCreated}, UpdateBodies)
        \/ LikeRequestOn(p, {Jwt(2)}, {FirstCreated})
        \/ LikeSelectIdea(p) \/ LikeSelectLike(p) \/ LikeWrite(p)
        \/ CollaborateRequestOn(p, {Jwt(2)}, {FirstCreated}, CollaborateBodies)
        \/ CollaborateSelectIdea(p)
        \/ CollaborateSelectExisting(p) \/ CollaborateInsert(p)

SpecEnrich == InitEnrich /\ [][NextEnrich]_vars

\* every route of the server, on a database that holds Ann, her idea and no
\* collaboration request: what the routes alone can reach.  Requests served
\* one after the other; likes, updates and collaboration requests go to
\* Ann's idea, Ann creates further ideas while the service is down
InitRoutes ==
    /\ users = <<Ann>>
    /\ ideas = <<SeedIdea>>
    /\ likes = EmptyBag
    /\ comments = EmptyBag
    /\ collaborations = EmptyBag
    /\ InitSlots
    /\ serial = TRUE

NextRoutes ==
    \E p \in Procs :
        \/ RegisterRequest(p) \/ RegisterSelect(p) \/ RegisterInsert(p)
        \/ Login(p) \/ Verify(p) \/ GetAnalytics(p)
        \/ GetIdeas(p) \/ GetPublicIdeas(p)
        \/ CreateIdeaOn(p, {Jwt(1)}, CreateBodies, {[kind |-> "network_error"]})
        \/ UpdateIdeaOn(p, Tokens, {FirstCreated}, {[title |-> "Solar hub"]})
        \/ LikeRequestOn(p, {Jwt(2)}, {FirstCreated})
        \/ LikeSelectIdea(p) \/ LikeSelectLike(p) \/ LikeWrite(p)
        \/ CollaborateRequestOn(p, Tokens, {FirstCreated}, CollaborateBodies)
        \/ CollaborateSelectIdea(p)
        \/ CollaborateSelectExisting(p) \/ CollaborateInsert(p)
        \/ AskRequest(p) \/ AskFetch(p) \/ AskRespond(p)

SpecRoutes == InitRoutes /\ [][NextRoutes]_vars

\* the client of Ann against the server: it loads the feed and uses the like
\* button; nobody else sends requests
InitClient ==
    /\ users = <<Ann, Bob>>
    /\ ideas = <<SeedIdea, BobsIdea>>
    /\ likes = EmptyBag
    /\ comments = EmptyBag
    /\ collaborations = EmptyBag
    /\ InitSlots
    /\ serial = TRUE

NextClient ==
    \/ \E p \in Procs :
           \/ ClientLoadIdeas(p) \/ ClientLikeIdea(p)
           \/ LikeSelectIdea(p) \/ LikeSelectLike(p) \/ LikeWrite(p)
    \/ ClientLikeResolved

SpecClient == InitClient /\ [][NextClient]_vars

\* ---------------------------------------------------------------- claims
\* does the table hold a like row of (idea, user)?
Liked(table, ideaId, userId) == CopiesIn(LikeRow(ideaId, userId), table) > 0

\* the entries of the feed the last response carried
Entries == IF out.route \in {"ideas", "public"} THEN out.body.ideas ELSE <<>>

\* C1: in every state the toggles of overlapping requests can reach, the
\* likes table holds at most one row per (idea id, user id) pair.
C1_OneLikePerPair ==
    \A i \in 1..Len(ideas), u \in 1..Len(users) :
        CopiesIn(LikeRow(i, u), likes) <= 1

\* two toggles of one user on one idea raced: the loser's insert was refused
C1_Witness ==
    /\ out.route = "like" /\ out.status = 500
    /\ CopiesIn(LikeRow(out.id, out.user), likes) = 1

\* C2: the toggle that loses the race on the uniqueness constraint does not
\* answer with an internal error.
C2_LoserNoHardError == ~(out.route = "like" /\ out.status = 500)

\* C3: of two toggles of one (idea, user) pair served one right after the
\* other, the second leaves the like row as it was before the first, each
\* returns the state that holds after it, and the two return opposite values.
C3_ToggleInverse ==
    [][(/\ out.route = "like" /\ out.status = 200
        /\ pc'[1] = "idle"
        /\ out'.route = "like" /\ out'.status = 200
        /\ out'.id = out.id /\ out'.user = out.user)
       => /\ Liked(likes', out.id, out.user) = out.pre
          /\ out.body.liked = out'.pre
          /\ out'.body.liked = Liked(likes', out.id, out.user)
          /\ out'.body.liked # out.body.liked]_vars

\* an unlike was answered: the pair's row was there at arrival and is gone
C3_Witness ==
    /\ out.route = "like" /\ out.status = 200
    /\ out.pre /\ ~out.body.liked
    /\ ~Liked(likes, out.id, out.user)

\* C4: a feed requested with a valid token marks an entry as liked exactly
\* when the likes table holds a row of (that idea, the token's user).
C4_IsLikedForViewer ==
    (out.route = "ideas" /\ out.token.kind = "jwt")
    => \A k \in 1..Len(Entries) :
           Entries[k].isLiked = Liked(likes, Entries[k].id, out.token.userId)

\* number of rows of a table that belong to an idea, row by row
RECURSIVE RowsOfIdea(_, _, _)
RowsOfIdea(table, rows, ideaId) ==
    IF rows = {} THEN 0
    ELSE LET r == CHOOSE x \in rows : TRUE
         IN  (IF r.idea_id = ideaId THEN table[r] ELSE 0)
             + RowsOfIdea(table, rows \ {r}, ideaId)

\* C5: in both feed variants every entry's likes and comments are the
\* numbers of rows the likes and the comments table hold for that idea.
C5_TrueCounts ==
    \A k \in 1..Len(Entries) :
        /\ Entries[k].likes = RowsOfIdea(likes, DOMAIN likes, Entries[k].id)
        /\ Entries[k].comments = RowsOfIdea(comments, DOMAIN comments, Entries[k].id)

\* a feed with two ideas whose counts differ: the older one liked by both
\* users and commented, the newer one liked by nobody
C5_Witness ==
    /\ Len(Entries) = 2
    /\ Entries[2].likes = 2 /\ Entries[2].comments > 0
    /\ Entries[1].likes = 0 /\ Entries[1].comments = 0

\* the four social values of a fresh idea
Untouched(e) ==
    e.likes = 0 /\ e.comments = 0 /\ e.collaborators = <<>> /\ e.isLiked = FALSE

\* C6: a successful create reports likes 0, comments 0, no collaborators and
\* isLiked false, and the feed served right after it holds an entry for the
\* new idea with the same four values.
C6_CreateThenFeed ==
    [][/\ (out'.route = "create" /\ out'.status = 201) => Untouched(out'.body.idea)
       /\ (/\ out.route = "create" /\ out.status = 201
           /\ pc'[1] = "idle" /\ out'.route \in {"ideas", "public"})
          => \E k \in 1..Len(out'.body.ideas) :
                 /\ out'.body.ideas[k].id = out.body.idea.id
                 /\ Untouched(out'.body.ideas[k])]_vars

\* a feed that lists a fresh idea next to one with likes, comments and a
\* collaborator
C6_Witness ==
    /\ Len(Entries) = 2
    /\ Entries[1].id = Len(ideas) /\ Untouched(Entries[1])
    /\ Entries[2].likes > 0 /\ Entries[2].comments > 0
    /\ Entries[2].collaborators # <<>>

\* C7: the collaborations table holds at most one row per (idea, requester)
\* pair, and a request that arrives when the pair's row exists, in whatever
\* status, is answered 409 (DuplicateRequest).
C7_RequestDedup ==
    /\ \A i \in 1..Len(ideas), u \in 1..Len(users) :
           CountRows(SelectCollaboration(i, u)) <= 1
    /\ (out.route = "collaborate" /\ out.pre) => out.status = 409

\* a request was refused as duplicate of a rejected one
C7_Witness ==
    /\ out.route = "collaborate" /\ out.pre /\ out.status = 409
    /\ \E r \in DOMAIN collaborations :
           r.idea_id = out.id /\ r.user_id = out.user /\ r.status = "rejected"

\* C8: a second collaboration request of a pair and a registration with a
\* bound email are answered as conflicts, never as internal errors, also when
\* the conflicting requests overlap.
C8_ConflictNotInternal ==
    out.route \in {"collaborate", "register"} => out.status # 500

\* C9: a collaboration request by the author of an existing idea is answered
\* 400 (SelfCollaboration), whatever the message and the requests that exist,
\* and no collaboration row of an author on their own idea is ever created.
C9_SelfCollaboration ==
    /\ (/\ out.route = "collaborate"
        /\ out.id \in 1..Len(ideas)
        /\ ideas[out.id].author_id = out.user)
       => /\ out.status = 400
          /\ out.body = Message("You cannot collaborate on your own idea")
    /\ \A i \in 1..Len(ideas) :
           CountRows(SelectCollaboration(i, ideas[i].author_id)) = 0

\* Bob, who has a request on Ann's idea, asked to collaborate on his own
C9_Witness ==
    /\ out.route = "collaborate" /\ out.status = 400
    /\ ideas[out.id].author_id = out.user
    /\ \E r \in DOMAIN collaborations : r.user_id = out.user

\* title, description, tags, phase and phase index of an idea row
Content(row) ==
    <<row.title, row.description, row.tags, row.phase, row.phase_index>>

PatchFields == {"title", "description", "tags", "phase", "phaseIndex"}
Column(f) == IF f = "phaseIndex" THEN "phase_index" ELSE f

\* C11: an update answered 200 leaves every column among title, description,
\* tags, phase and phase index whose field the body does not hold at the
\* value it had before the update, in the row and in the returned idea.
C11_OmittedUnchanged ==
    [][(out'.route = "update" /\ out'.status = 200 /\ pc'[1] = "idle")
       => \A f \in PatchFields \ out'.patch :
              /\ ideas'[out'.id][Column(f)] = ideas[out'.id][Column(f)]
              /\ out'.body.idea[Column(f)] = ideas[out'.id][Column(f)]]_vars

\* a body holding only a title was applied to an idea whose tags and phase
\* an earlier update had set
C11_Witness ==
    /\ out.route = "update" /\ out.status = 200 /\ out.patch = {"title"}
    /\ ideas[out.id].title = "Solar hub"
    /\ ideas[out.id].tags = <<"ai">> /\ ideas[out.id].phase = "Build & Test"

\* the five stages in their order
Phases ==
    <<"Idea Spark", "Research & Validate", "Plan & Strategy", "Build & Test",
      "Launch Ready">>

\* C12: every idea's phase is one of the five stages and its phase index is
\* the position (0 to 4) of that phase in the fixed order.
C12_PhaseConsistent ==
    \A i \in 1..Len(ideas) :
        \E k \in 1..Len(Phases) :
            ideas[i].phase = Phases[k] /\ ideas[i].phase_index = k - 1

\* C13: every idea has a non-empty title and a non-empty description.
C13_TitleAndDescription ==
    \A i \in 1..Len(ideas) : ideas[i].title # "" /\ ideas[i].description # ""

\* the outcomes of the external call that count as its failure
FailureKinds == {"network_error", "not_ok", "bad_json"}

\* C14: when the external call of a create fails (transport error, status
\* not ok, text that does not parse), the analysis the enrichment yields is
\* the fixed fallback payload, whatever the body; it is the value the UPDATE
\* writes to the idea's row and the value the response carries.
C14_FallbackOnFailure ==
    [][\A p \in Procs :
          /\ (pc[p] = "create_update" /\ pc'[p] = "create_respond"
              /\ loc[p].outcome \in FailureKinds)
             => /\ loc[p].aiAnalysis = FallbackAnalysis
                /\ loc'[p].stored
                   => ideas'[loc[p].id].ai_analysis = FallbackAnalysis
          /\ (pc[p] = "create_respond" /\ pc'[p] = "idle"
              /\ loc[p].outcome \in FailureKinds /\ loc[p].stored)
             => out'.body.idea.aiAnalysis = FallbackAnalysis]_vars

\* a create without tags whose external call failed was answered with the
\* fallback, which is what its row holds
C14_Witness ==
    /\ out.route = "create" /\ out.status = 201
    /\ out.body.idea.tags = <<>>
    /\ out.body.idea.aiAnalysis = FallbackAnalysis
    /\ ideas[out.body.idea.id].ai_analysis = FallbackAnalysis

\* the awaits of a create that has inserted its row
Enriching == {"create_fetch", "create_waiting", "create_update", "create_respond"}

\* the columns the INSERT of a create writes
Base(row) == [row EXCEPT !.ai_analysis = NoAnalysis]

\* C15: a create that has inserted its row is answered 201 with that idea,
\* whatever the external call and the UPDATE of the analysis did, and no step
\* removes a row of ideas or changes the columns the INSERT wrote.
C15_EnrichmentNeverFails ==
    [][/\ \A p \in Procs :
             (pc[p] \in Enriching /\ pc'[p] = "idle")
             => /\ out'.status = 201
                /\ out'.body.idea.id = loc[p].id
                /\ Base(ideas'[loc[p].id]) = NewIdeaRow(req[p].body, req[p].user)
       /\ Len(ideas') >= Len(ideas)
       /\ \A i \in 1..Len(ideas) : Base(ideas'[i]) = Base(ideas[i])]_vars

\* a create whose UPDATE of the analysis failed was answered 201 without an
\* analysis, and its row is there
C15_Witness ==
    /\ out.route = "create" /\ out.status = 201
    /\ out.body.idea.aiAnalysis = NoAnalysis
    /\ ideas[out.body.idea.id].ai_analysis = NoAnalysis
    /\ ideas[out.body.idea.id].title = out.body.idea.title

\* C16: every create that has inserted its row sends its response in the end.
C16_CreateResponds ==
    \A p \in Procs : (pc[p] = "create_fetch") ~> (pc[p] = "idle")

\* all four parts, within their sizes
Complete(a) ==
    /\ DOMAIN a = {"similarSolutions", "marketOpportunity", "recommendations", "risks"}
    /\ Len(a.similarSolutions) <= 5
    /\ DOMAIN a.marketOpportunity = {"score", "explanation"}
    /\ a.marketOpportunity.score \in 1..10
    /\ Len(a.recommendations) <= 3
    /\ Len(a.risks) <= 3

\* C17: every idea's analysis is absent or complete.
C17_AbsentOrComplete ==
    \A i \in 1..Len(ideas) :
        ideas[i].ai_analysis = NoAnalysis \/ Complete(ideas[i].ai_analysis)

\* C18: a request is refused with 429 by the general limiter exactly when its
\* address has had 100 requests counted in the window, and a request on an
\* AI-backed route that reaches aiLimiter exactly when its address has had 10
\* counted there, create and ask counted together; a refused request changes
\* no table, and the counts of other addresses are not touched.
C18_RateLimits ==
    [][\A c \in Clients :
          hits'["general"][c] = hits["general"][c] + 1
          => /\ hits["general"][c] >= GeneralMax
                => /\ out'.status = 429
                   /\ tables' = tables
                   /\ hits'["ai"] = hits["ai"]
             /\ (/\ hits["general"][c] < GeneralMax
                 /\ authenticateToken(out'.token).status # 0)
                => out'.status # 429
             /\ (/\ hits["general"][c] < GeneralMax
                 /\ authenticateToken(out'.token).status = 0
                 /\ out'.route \in {"ask", "create"})
                => /\ hits'["ai"][c] = hits["ai"][c] + 1
                   /\ out'.status = 429 <=> hits["ai"][c] >= AiMax
                   /\ out'.status = 429 => tables' = tables
             /\ \A d \in Clients \ {c}, t \in Tiers : hits'[t][d] = hits[t][d]]_vars

\* the logged-in client's 11th call of the window on the AI-backed routes was
\* refused, a create among the ten before it, while the other client has
\* used up the general budget of its address
C18_Witness ==
    /\ out.route \in {"ask", "create"}
    /\ out.status = 429 /\ out.user # NullParam
    /\ hits["ai"][Member] = AiMax + 1 /\ hits["general"][Member] = AiMax + 1
    /\ Len(ideas) = 2
    /\ hits["general"][Anonymous] = GeneralMax + 1

\* a step in which the response of the given route is sent: the last step of
\* its request, which leaves the users table as it is
Responds(route) == pc'[1] = "idle" /\ users' = users /\ out'.route = route

\* C19: verifying a signed token answers with the id the token was signed
\* for and the name, email and role the users table holds for that id at
\* that time, whatever role the token carries, and fails with 401 when the
\* table holds no row of that id; verifying the token the last login or
\* register returned yields the user id of that response, or 401 once that
\* user's row is gone.
C19_VerifyReadsCurrentRow ==
    [][/\ (Responds("verify") /\ out'.token.kind = "jwt")
          => IF Len(SelectUser(out'.token.userId)) = 0
             THEN out'.status = 401
             ELSE /\ out'.status = 200
                  /\ out'.body.user.id = out'.token.userId
                  /\ out'.body.user.role = users[out'.token.userId].role
                  /\ out'.body.user.name = users[out'.token.userId].name
                  /\ out'.body.user.email = users[out'.token.userId].email
       /\ (/\ out.route \in {"login", "register"} /\ out.status \in {200, 201}
           /\ Responds("verify") /\ out'.token = out.body.token)
          => IF Len(SelectUser(out.body.user.id)) = 0
             THEN out'.status = 401
             ELSE /\ out'.status = 200
                  /\ out'.body.user.id = out.body.user.id]_vars

\* a token signed for an employee was verified after the stored role had
\* become admin, and the table holds a deleted row
C19_Witness ==
    /\ out.route = "verify" /\ out.status = 200
    /\ out.token.role = "employee" /\ out.body.user.role = "admin"
    /\ \E u \in 1..Len(users) : users[u] = DeletedRow

\* C20: analytics answers 200 with the counts exactly when the row of the
\* token's user holds role admin; any other caller whose token passes
\* authenticateToken is answered 403 without counts; and no analytics request
\* changes a table.
C20_AdminOnly ==
    [][Responds("analytics")
       => /\ tables' = tables
          /\ out'.status = 200
             <=> /\ out'.token.kind = "jwt"
                 /\ Len(SelectUser(out'.token.userId)) > 0
                 /\ users[out'.token.userId].role = "admin"
          /\ out'.status = 200 => out'.body = Analytics
          /\ (/\ out'.token.kind = "jwt"
              /\ Len(SelectUser(out'.token.userId)) > 0
              /\ users[out'.token.userId].role # "admin")
             => /\ out'.status = 403
                /\ out'.body = Message("Admin access required")]_vars

\* a caller whose token says admin and whose stored role is not was refused
C20_Witness ==
    /\ out.route = "analytics" /\ out.status = 403
    /\ out.token.kind = "jwt" /\ out.token.role = "admin"
    /\ Len(SelectUser(out.token.userId)) > 0
    /\ users[out.token.userId].role # "admin"

\* the handlers that stand at an await of a registration
Registering == {p \in Procs : pc[p] \in {"register_select", "register_insert"}}

\* C21: no two users share an email; a registration with a password shorter
\* than 6 is never taken past validation and is answered 400 with no user
\* created; one whose lookup finds the email bound is answered 409 with no
\* user created; and a user row appears only in the step that answers 201 to
\* a registration whose email was not bound and whose password has 6 or more.
C21_RegisterUnique ==
    [][/\ \A i, j \in 1..Len(users') :
              (i # j /\ users'[i] # DeletedRow) => users'[i].email # users'[j].email
       /\ \A p \in Procs :
              /\ (pc'[p] \in {"register_select", "register_insert"})
                 => Len(req'[p].body.password) >= MinPasswordLength
              /\ (/\ pc[p] = "register_select" /\ pc'[p] # "register_select"
                  /\ SelectUserByEmail(req[p].body.email) > 0)
                 => /\ out'.route = "register" /\ out'.status = 409
                    /\ users' = users
       /\ (pc' = pc /\ out' # out /\ out'.route = "register")
          => out'.status = 400 /\ users' = users
       /\ users' # users
          => \E p \in Procs :
                 /\ pc[p] = "register_insert" /\ pc'[p] = "idle"
                 /\ SelectUserByEmail(req[p].body.email) = 0
                 /\ Len(req[p].body.password) >= MinPasswordLength
                 /\ out'.route = "register" /\ out'.status = 201
                 /\ Len(users') = Len(users) + 1
                 /\ users'[Len(users')].email = req[p].body.email]_vars

\* Bob has registered, and a later registration with his email was refused
C21_Witness ==
    /\ out.route = "register" /\ out.status = 409
    /\ Len(users) = 2 /\ users[2].email = "bob@x"
    /\ Registering = {}

\* the handlers of toggle-like and request-collaboration past their first
\* await
PastIdeaCheck ==
    {"like_select", "like_write", "collaborate_select", "collaborate_insert"}

C23_PublicNeverLiked ==
    out.route = "public"
    => \A k \in 1..Len(Entries) :
           /\ "isLiked" \in DOMAIN Entries[k]
           /\ Entries[k].isLiked = FALSE

\* a public listing of two ideas, the older one liked by both users
C23_Witness ==
    /\ out.route = "public" /\ Len(Entries) = 2
    /\ Entries[2].likes = 2
    /\ Liked(likes, Entries[2].id, 1) /\ Liked(likes, Entries[2].id, 2)

\* the string askAIAssistant returns from its catch
Apology ==
    "I'm having trouble processing your question right now. Please try again later."

\* C24: a question that has passed validation is answered 200 whatever the
\* external service did, and when the call failed (transport error, status
\* not ok, a body that does not parse) the response is the fixed apology; no
\* table changes.
C24_AskNeverFails ==
    [][\A p \in Procs :
          (req[p].route = "ask" /\ pc[p] # "idle" /\ pc'[p] = "idle")
          => /\ out'.route = "ask" /\ out'.status = 200
             /\ loc[p].outcome \in FailureKinds
                => out'.body = [response |-> Apology]
             /\ tables' = tables]_vars

\* a question was answered with the apology while another one is waiting for
\* the service
C24_Witness ==
    /\ out.route = "ask" /\ out.status = 200
    /\ out.body = [response |-> Apology]
    /\ \E p \in Procs : pc[p] = "ask_fetch"

\* C25: an idea's row is inserted without analysis; its analysis changes
\* only in the UPDATE of the create that inserted it, and only while the row
\* holds none, so it is written at most once and no update, like,
\* collaboration request or other create writes it afterwards; a create
\* calls the external service once: from the await of the call the handler
\* goes on to the UPDATE (or stays waiting) and never back to the call.
C25_AnalysisWrittenOnce ==
    [][/\ \A i \in 1..Len(ideas) :
              ideas'[i].ai_analysis # ideas[i].ai_analysis
              => /\ ideas[i].ai_analysis = NoAnalysis
                 /\ \E p \in Procs :
                        /\ req[p].route = "create" /\ loc[p].id = i
                        /\ pc[p] = "create_update" /\ pc'[p] = "create_respond"
       /\ \A i \in (Len(ideas) + 1)..Len(ideas') :
              ideas'[i].ai_analysis = NoAnalysis
       /\ \A p \in Procs :
              /\ (pc[p] = "create_fetch" /\ pc'[p] # "create_fetch")
                 => pc'[p] \in {"create_update", "create_waiting"}
              /\ (pc'[p] = "create_fetch" /\ pc[p] # "create_fetch")
                 => /\ pc[p] = "create_insert"
                    /\ loc'[p].id = Len(ideas')]_vars

\* the first idea has its analysis from the service, has since been updated
\* by its author, liked and asked for by Bob, and a second create has
\* stored the fallback in its own row
C25_Witness ==
    /\ Len(ideas) = 2
    /\ ideas[1].ai_analysis = ServiceAnalysis /\ ideas[1].title = "Solar hub"
    /\ Liked(likes, 1, 2) /\ CountRows(SelectCollaboration(1, 2)) > 0
    /\ ideas[2].ai_analysis = FallbackAnalysis
    /\ Quiet

\* C26: every request on an AI-backed route that the general limiter lets
\* pass is counted by the AI limiter, whether or not its token is valid.
C26_LimitersBeforeAuth ==
    [][\A c \in Clients :
          (/\ hits'["general"][c] = hits["general"][c] + 1
           /\ ~OverLimit(hits'["general"][c], GeneralMax)
           /\ out'.route \in {"ask", "create"})
          => hits'["ai"][c] = hits["ai"][c] + 1]_vars

\* C27: on a database the routes alone have filled, every collaboration
\* request is pending, no step changes or removes a request that exists,
\* every feed entry's list of collaborators is empty and the analytics
\* report counts 0 accepted collaborations.
C27_AllPending ==
    /\ [](/\ \A r \in DOMAIN collaborations : r.status = "pending"
          /\ \A k \in 1..Len(Entries) : Entries[k].collaborators = <<>>
          /\ (out.route = "analytics" /\ out.status = 200)
             => out.body.collaborations = 0)
    /\ [][\A r \in DOMAIN collaborations :
             CopiesIn(r, collaborations') = CopiesIn(r, collaborations)]_vars

\* Bob's request on Ann's idea is in the table, and the analytics report was
\* served
C27_Witness ==
    /\ out.route = "analytics" /\ out.status = 200
    /\ CountRows(SelectCollaboration(1, 2)) = 1

\* the users who came into the table through the register route
Registered == {u \in 1..Len(users) : users[u] # Ann /\ users[u] # DeletedRow}

\* C28: every user's role is employee, mentor or admin, and where nobody
\* changes roles in the database, no user who registered through the route
\* gets the analytics report.
C28_RoleNotAsserted ==
    /\ \A u \in 1..Len(users) : users[u] # DeletedRow => users[u].role \in Roles
    /\ (out.route = "analytics" /\ out.user \in Registered) => out.status # 200

\* C29: under every interleaving, each toggle that is answered with success
\* has changed the existence of the like row of its (idea, user) pair, so N
\* successful toggles change it N times, and the liked value it returns is
\* the row's existence right after its write.
C29_FlipUnderInterleaving ==
    [][\A p \in Procs :
          (pc[p] = "like_write" /\ pc'[p] = "idle" /\ out'.status = 200)
          => /\ Liked(likes', req[p].id, req[p].user)
                # Liked(likes, req[p].id, req[p].user)
             /\ out'.body.liked = Liked(likes', req[p].id, req[p].user)]_vars

\* C30: when a likeIdea call of the client has succeeded, the likes count
\* and the isLiked flag the client holds for the idea are the number of like
\* rows of the idea and the existence of the caller's like row.
C30_ClientMatchesServer ==
    [][(client.at = "like" /\ client'.at = "idle" /\ Ok(out.status))
       => \A k \in 1..Len(client'.ideas) :
              client'.ideas[k].id = client.id
              => /\ client'.ideas[k].likes = LikeCount(client.id)
                 /\ client'.ideas[k].isLiked = Liked(likes, client.id, out.user)]_vars

====
